---- MODULE Spec2Model ----
(***************************************************************************)
(* Catalog / Orders modular monolith: the Product and Order aggregates,    *)
(* the batch stock reservation use case, the inventory gateway, the order  *)
(* placement use case and the request-scoped database session.             *)
(*                                                                         *)
(* Every `await` on the session (a SELECT or a flush) is one step of a     *)
(* request, so that requests interleave exactly where the event loop can   *)
(* switch between them.  Amounts of money are integers (cents).            *)
(***************************************************************************)
EXTENDS Integers, Sequences, FiniteSets, TLC

\* ---------------------------------------------------------------- bounds
NumProducts == 2     \* products stored in the catalog at start
MaxStock    == 2     \* largest initial stock quantity
MaxQty      == 2     \* largest quantity of one item
MaxItems    == 3     \* longest batch of a sequential request
ConcMaxItems == 2    \* longest batch of a concurrent request
PlaceMaxItems == 2   \* longest item list of an order placement
MaxClock    == 5     \* number of readings of datetime.utcnow()
MaxReleases == 2     \* release_stock calls made after one reservation
MaxOrderItems == 3   \* items an order is grown to by add_item
MaxCreates  == 3     \* create_product requests received
MaxSessions == 3     \* database sessions opened
MaxRepoCalls == 4    \* get_product_repository calls made

\* ------------------------------------------------------------ identities
ProductIds == 1..NumProducts          \* ids of the stored products
UnknownId  == NumProducts + 1         \* an id no stored product has
KnownIds   == ProductIds \cup {UnknownId}
Reqs       == {1, 2}                  \* the two concurrent requests
SeqReqs    == {1}                     \* the request slot of the sequential runs

None      == [absent |-> TRUE]        \* Python's None
NoRow     == None                     \* scalar_one_or_none() found no row
NoProduct == None                     \* get_by_id() returned None
NoExc     == "None"

\* exception classes (src/core/exceptions.py, domain/gateways.py); "Exception"
\* stands for every class that is not a DomainError subclass named here
\* (pydantic's validation error, ValueError, AttributeError, DBAPIError)
NotFoundError         == "NotFoundError"
ValidationError       == "ValidationError"
BusinessRuleViolation == "BusinessRuleViolation"
StockReservationError == "StockReservationError"
OtherException        == "Exception"

NameOf(p)  == <<"product", p>>        \* name column of stored product p
PriceOf(p) == 5000 * p                \* price_amount of stored product p, in cents

\* ------------------------------------------------------------- OrderStatus
PENDING    == "pending"
CONFIRMED  == "confirmed"
PROCESSING == "processing"
SHIPPED    == "shipped"
DELIVERED  == "delivered"
CANCELLED  == "cancelled"
OrderStatus == {PENDING, CONFIRMED, PROCESSING, SHIPPED, DELIVERED, CANCELLED}

\* Records are written with their fields in one fixed order throughout.
VARIABLES
  db,            \* committed rows of table products: id -> row or NoRow
  orders,        \* committed rows of table orders (a sequence of orders)
  kind,          \* per request: "idle", "reserve" (gateway call) or "place"
  pc,            \* per request: position in its handler
  command,       \* per request: the command it was given
  order_items,   \* per request: the List[OrderItem] handed to the gateway
  idx,           \* per request: loop index of the running for-loop
  product,       \* per request: local variable `product` of ReserveStockUseCase
  products_info, \* per request: local list `products_info`
  cache,         \* per request: identity map of its session, id -> row
  pending,       \* per request: rows its transaction has flushed, not committed
  new_orders,    \* per request: orders its transaction has inserted
  exc,           \* per request: exception that left the handler, or NoExc
  result,        \* per request: value the handler returned
  hist,          \* per request: bookkeeping of the run (pre-call stock, calls made)
  order,         \* an Order aggregate driven through its lifecycle
  now,           \* reading of the clock
  last,          \* outcome of the last call made on `order`
  prod,          \* a Product aggregate driven through its methods
  plast,         \* outcome of the last call made on `prod`
  stock_vo,      \* a Stock value object (its quantity)
  slast,         \* outcome of the last call made on `stock_vo`
  sku_rows,      \* committed rows of table products written by create_product
  create,        \* per request: its run of CreateProductUseCase.execute
  ncreates,      \* create_product requests received so far
  sku_vo,        \* outcome of the last SKU(value=...) construction
  manager,       \* the RepositoryManager singleton: its two cached attributes
  req_repo,      \* per request: its session and the repository it was given
  returned,      \* what get_product_repository has returned, per call
  alloc          \* objects created so far: sessions, repositories, calls made

vars == <<db, orders, kind, pc, command, order_items, idx, product,
          products_info, cache, pending, new_orders, exc, result, hist,
          order, now, last, prod, plast, stock_vo, slast,
          sku_rows, create, ncreates, sku_vo,
          manager, req_repo, returned, alloc>>

reqVars   == <<kind, pc, command, order_items, idx, product, products_info,
               cache, pending, new_orders, exc, result, hist>>
orderVars == <<order, now, last>>
productVars == <<prod, plast, stock_vo, slast>>
createVars == <<sku_rows, create, ncreates, sku_vo>>
mgrVars == <<manager, req_repo, returned, alloc>>
infraVars == <<createVars, mgrVars>>

\* ===================================================== catalog value objects
\* Stock.__post_init__: a Stock exists only with quantity >= 0
StockPostInit(quantity) ==
  IF quantity < 0 THEN ValidationError ELSE NoExc

\* an is_available that lets one unit too many through
StockIsAvailableOffByOne(quantity, requested_quantity) ==
  quantity + 1 >= requested_quantity

\* Stock.is_available
StockIsAvailable(quantity, requested_quantity) ==
  quantity >= requested_quantity

\* a decrease without its guard on negative amounts
StockDecreaseAcceptsNegative(quantity, amount) ==
  IF quantity - amount < 0
  THEN [exc |-> ValidationError, val |-> quantity]
  ELSE [exc |-> StockPostInit(quantity - amount), val |-> quantity - amount]

\* Stock.decrease: [exc, val]; val is the quantity of the new Stock
StockDecrease(quantity, amount) ==
  IF amount < 0 THEN [exc |-> ValidationError, val |-> quantity]
  ELSE IF quantity - amount < 0
       THEN [exc |-> ValidationError, val |-> quantity]
       ELSE [exc |-> StockPostInit(quantity - amount), val |-> quantity - amount]

\* ========================================================= Product aggregate
\* a reserve_stock that does not look at is_active
ProductReserveStockIgnoresActive(p, quantity) ==
  IF ~StockIsAvailable(p.stock, quantity)
  THEN [exc |-> BusinessRuleViolation, val |-> p]
  ELSE LET d == StockDecrease(p.stock, quantity)
       IN IF d.exc # NoExc THEN [exc |-> d.exc, val |-> p]
          ELSE [exc |-> NoExc, val |-> [p EXCEPT !.stock = d.val]]

\* a reserve_stock that assigns the difference without any check
ProductReserveStockUnchecked(p, quantity) ==
  [exc |-> NoExc, val |-> [p EXCEPT !.stock = p.stock - quantity]]

\* a reserve_stock that deactivates the product when it takes the last unit
ProductReserveStockDeactivatesAtZero(p, quantity) ==
  IF ~p.is_active THEN [exc |-> BusinessRuleViolation, val |-> p]
  ELSE IF ~StockIsAvailable(p.stock, quantity)
       THEN [exc |-> BusinessRuleViolation, val |-> p]
       ELSE LET d == StockDecrease(p.stock, quantity)
            IN IF d.exc # NoExc THEN [exc |-> d.exc, val |-> p]
               ELSE [exc |-> NoExc,
                     val |-> [p EXCEPT !.stock = d.val, !.is_active = d.val > 0]]

\* Product.reserve_stock on a product row: [exc, val]; val is the product after
ProductReserveStock(p, quantity) ==
  IF ~p.is_active THEN [exc |-> BusinessRuleViolation, val |-> p]
  ELSE IF ~StockIsAvailable(p.stock, quantity)
       THEN [exc |-> BusinessRuleViolation, val |-> p]
       ELSE LET d == StockDecrease(p.stock, quantity)
            IN IF d.exc # NoExc THEN [exc |-> d.exc, val |-> p]
               ELSE [exc |-> NoExc, val |-> [p EXCEPT !.stock = d.val]]

\* Stock.increase: [exc, val]
StockIncrease(quantity, amount) ==
  IF amount < 0 THEN [exc |-> ValidationError, val |-> quantity]
  ELSE [exc |-> StockPostInit(quantity + amount), val |-> quantity + amount]

\* a replenish_stock that refuses an inactive product
ProductReplenishStockActiveOnly(p, quantity) ==
  LET i == StockIncrease(p.stock, quantity)
  IN IF ~p.is_active THEN [exc |-> BusinessRuleViolation, val |-> p]
     ELSE IF i.exc # NoExc THEN [exc |-> i.exc, val |-> p]
     ELSE [exc |-> NoExc, val |-> [p EXCEPT !.stock = i.val]]

\* Product.replenish_stock: [exc, val]
ProductReplenishStock(p, quantity) ==
  LET i == StockIncrease(p.stock, quantity)
  IN IF i.exc # NoExc THEN [exc |-> i.exc, val |-> p]
     ELSE [exc |-> NoExc, val |-> [p EXCEPT !.stock = i.val]]

\* Product.deactivate, Product.activate
ProductDeactivate(p) == [exc |-> NoExc, val |-> [p EXCEPT !.is_active = FALSE]]
ProductActivate(p)   == [exc |-> NoExc, val |-> [p EXCEPT !.is_active = TRUE]]

\* Product.__post_init__: the name is neither empty nor shorter than 3
ProductPostInit(name) ==
  IF Len(name) = 0 THEN BusinessRuleViolation
  ELSE IF Len(name) < 3 THEN BusinessRuleViolation
  ELSE NoExc

\* an Optional[str] argument: a string of characters, or None
Str(chars) == [chars |-> chars, given |-> TRUE]
NoStr == [chars |-> <<>>, given |-> FALSE]

\* bool(name) of an Optional[str]
Truthy(name) == name.given /\ Len(name.chars) > 0

\* Product.update_details
ProductUpdateDetails(p, name, description) ==
  IF Truthy(name) /\ Len(name.chars) < 3
  THEN [exc |-> BusinessRuleViolation, val |-> p]
  ELSE [exc |-> NoExc,
        val |-> [p EXCEPT !.name = IF Truthy(name) THEN name.chars ELSE @,
                          !.description = IF description.given
                                          THEN description.chars ELSE @]]

NoPrice == 0                          \* Product.price = None (a Price is > 0)

\* Price.__post_init__ on an amount in cents (two decimals by construction)
PricePostInit(amount) ==
  IF amount <= 0 THEN ValidationError ELSE NoExc

Abs(x) == IF x < 0 THEN 0 - x ELSE x

\* Amounts are floats in the code.  For these pairs <<old, new>> of amounts in
\* cents, a change of exactly 50%, the double computed by
\* abs(new - old) / old is 0.5000000000000001 (old below 1.00).
RatioRoundedAboveHalf ==
  {<<18, 27>>, <<22, 33>>, <<30, 45>>, <<36, 54>>, <<42, 63>>, <<44, 66>>,
   <<58, 87>>, <<60, 90>>, <<62, 93>>, <<70, 105>>, <<72, 108>>, <<74, 111>>,
   <<82, 123>>, <<84, 126>>, <<86, 129>>, <<88, 132>>, <<90, 135>>}

\* price_change_ratio > 0.5 as the code evaluates it
PriceChangeRatioExceedsHalf(old, new) ==
  \/ 2 * Abs(new - old) > old
  \/ <<old, new>> \in RatioRoundedAboveHalf

\* Product.update_price(new_price): [exc, val]
ProductUpdatePrice(p, new_amount) ==
  IF p.price # NoPrice /\ PriceChangeRatioExceedsHalf(p.price, new_amount)
  THEN [exc |-> BusinessRuleViolation, val |-> p]
  ELSE [exc |-> NoExc, val |-> [p EXCEPT !.price = new_amount]]

\* ============================================================ the session
\* The row of product id as transaction r sees it in the database: its own
\* flushed write if it made one, else the committed row (READ COMMITTED).
Visible(r, id) ==
  IF pending[r][id] # NoRow THEN pending[r][id] ELSE db[id]

\* session.execute(select(ProductModel).where(product_id == id)) followed by
\* scalar_one_or_none(): an object already in the identity map is returned as
\* it is, a row not loaded yet is read from the database.
SelectModel(r, id) ==
  IF cache[r][id] # NoRow THEN cache[r][id] ELSE Visible(r, id)

\* the identity map after that SELECT
CacheAfterSelect(r, id) ==
  [cache[r] EXCEPT ![id] = SelectModel(r, id)]

\* SQLAlchemyProductRepository.get_by_id: _to_domain(model) or None
GetById(r, id) == SelectModel(r, id)

\* The UPDATE that flush() emits for a model whose attributes were assigned
\* from product p: only the columns whose value differs from the loaded one.
FlushedRow(r, id, p) ==
  LET model == SelectModel(r, id)
      row   == Visible(r, id)
  IN [stock     |-> IF p.stock # model.stock THEN p.stock ELSE row.stock,
      is_active |-> IF p.is_active # model.is_active THEN p.is_active
                    ELSE row.is_active,
      name      |-> IF p.name # model.name THEN p.name ELSE row.name,
      price     |-> IF p.price # model.price THEN p.price ELSE row.price]

\* A flush of a row another open transaction has written waits for that
\* transaction to end.
RowLockedByOther(r, id) ==
  \E r2 \in Reqs \ {r} : pending[r2][id] # NoRow

\* ============================================================ Order aggregate
NoTime == 0 - 1                       \* confirmed_at = None

\* OrderItem.__post_init__
OrderItemPostInit(unit_price) ==
  IF unit_price <= 0 THEN BusinessRuleViolation ELSE NoExc

\* OrderItem(...): [exc, val]
NewOrderItem(product_id, product_name, quantity, unit_price) ==
  [exc |-> OrderItemPostInit(unit_price),
   val |-> [quantity |-> quantity, unit_price |-> unit_price,
            product_id |-> product_id, product_name |-> product_name]]

\* OrderItem.calculate_subtotal: round(quantity * unit_price, 2); amounts are
\* whole cents, so the product already has two decimals
CalculateSubtotal(item) == item.quantity * item.unit_price

RECURSIVE SumSubtotals(_, _)
SumSubtotals(items, n) ==
  IF n = 0 THEN 0 ELSE SumSubtotals(items, n - 1) + CalculateSubtotal(items[n])

\* Order.calculate_total
CalculateTotal(items) == SumSubtotals(items, Len(items))

\* Order(...) with __post_init__: [exc, val]; t is the reading of utcnow()
NewOrder(customer_info, items, shipping_address, status, total_amount, confirmed_at, t) ==
  LET o == [items |-> items, customer_info |-> customer_info,
            shipping_address |-> shipping_address, status |-> status,
            total_amount |-> total_amount, confirmed_at |-> confirmed_at,
            created_at |-> t, updated_at |-> t]
  IN IF Len(items) = 0 THEN [exc |-> BusinessRuleViolation, val |-> o]
     ELSE IF customer_info = None THEN [exc |-> BusinessRuleViolation, val |-> o]
     ELSE IF shipping_address = None THEN [exc |-> BusinessRuleViolation, val |-> o]
     ELSE [exc |-> NoExc,
           val |-> IF total_amount = 0
                   THEN [o EXCEPT !.total_amount = CalculateTotal(items)]
                   ELSE o]

\* a confirm without its status guard
OrderConfirmUnguarded(o, t) ==
  [exc |-> NoExc,
   val |-> [o EXCEPT !.status = CONFIRMED, !.confirmed_at = t, !.updated_at = t]]

\* Order.confirm
OrderConfirm(o, t) ==
  IF o.status # PENDING THEN [exc |-> BusinessRuleViolation, val |-> o]
  ELSE [exc |-> NoExc,
        val |-> [o EXCEPT !.status = CONFIRMED, !.confirmed_at = t,
                          !.updated_at = t]]

\* a cancel that only refuses an order already cancelled
OrderCancelUnguarded(o, t) ==
  IF o.status = CANCELLED THEN [exc |-> BusinessRuleViolation, val |-> o]
  ELSE [exc |-> NoExc, val |-> [o EXCEPT !.status = CANCELLED, !.updated_at = t]]

\* Order.cancel
OrderCancel(o, t) ==
  IF o.status \in {SHIPPED, DELIVERED} THEN [exc |-> BusinessRuleViolation, val |-> o]
  ELSE IF o.status = CANCELLED THEN [exc |-> BusinessRuleViolation, val |-> o]
  ELSE [exc |-> NoExc, val |-> [o EXCEPT !.status = CANCELLED, !.updated_at = t]]

\* Order.mark_as_processing
OrderMarkAsProcessing(o, t) ==
  IF o.status # CONFIRMED THEN [exc |-> BusinessRuleViolation, val |-> o]
  ELSE [exc |-> NoExc, val |-> [o EXCEPT !.status = PROCESSING, !.updated_at = t]]

\* Order.mark_as_shipped
OrderMarkAsShipped(o, t) ==
  IF o.status # PROCESSING THEN [exc |-> BusinessRuleViolation, val |-> o]
  ELSE [exc |-> NoExc, val |-> [o EXCEPT !.status = SHIPPED, !.updated_at = t]]

\* Order.mark_as_delivered
OrderMarkAsDelivered(o, t) ==
  IF o.status # SHIPPED THEN [exc |-> BusinessRuleViolation, val |-> o]
  ELSE [exc |-> NoExc, val |-> [o EXCEPT !.status = DELIVERED, !.updated_at = t]]

\* an add_item without its status guard
OrderAddItemUnguarded(o, item, t) ==
  LET appended == Append(o.items, item)
  IN [exc |-> NoExc,
      val |-> [o EXCEPT !.items = appended,
                        !.total_amount = CalculateTotal(appended),
                        !.updated_at = t]]

\* Order.add_item
OrderAddItem(o, item, t) ==
  IF o.status # PENDING THEN [exc |-> BusinessRuleViolation, val |-> o]
  ELSE LET appended == Append(o.items, item)
       IN [exc |-> NoExc,
           val |-> [o EXCEPT !.items = appended,
                             !.total_amount = CalculateTotal(appended),
                             !.updated_at = t]]

\* ====================================================== orders value objects
\* Quantity.__post_init__
QuantityPostInit(value) ==
  IF value <= 0 THEN ValidationError ELSE NoExc

\* CustomerInfo.__post_init__; strings are modelled by their length, the
\* email by whether it contains "@"
CustomerInfoPostInit(c) ==
  IF c.customer_id_len = 0 THEN ValidationError
  ELSE IF c.name_len = 0 \/ c.name_len < 3 THEN ValidationError
  ELSE IF ~c.has_at THEN ValidationError
  ELSE IF c.phone_len = 0 THEN ValidationError
  ELSE NoExc

\* Address.__post_init__
AddressPostInit(a) ==
  IF a.street_len = 0 \/ a.street_len < 5 THEN ValidationError
  ELSE IF a.city_len = 0 \/ a.city_len < 2 THEN ValidationError
  ELSE IF a.state_len = 0 THEN ValidationError
  ELSE IF a.postal_len = 0 THEN ValidationError
  ELSE IF a.country_len = 0 THEN ValidationError
  ELSE NoExc

\* ================================================================== inputs
\* OrderItemCommand / ReserveStockItemCommand: quantity is gt=0
ItemCommands == [quantity : 1..MaxQty, product_id : KnownIds]

\* item lists of length lo..hi
ItemLists(lo, hi) == UNION {[1..k -> ItemCommands] : k \in lo..hi}

\* CustomerInfoCommand as pydantic lets it through: customer_id min_length 1,
\* name min_length 3, email with "@"; phone may be empty
CustomerInfoCommands ==
  [customer_id_len : {1}, name_len : {3}, has_at : {TRUE}, phone_len : {0, 1}]

\* AddressCommand as pydantic lets it through: street min_length 5, city
\* min_length 2; state may be empty
AddressCommands ==
  [street_len : {5}, city_len : {2}, state_len : {0, 1}, postal_len : {1},
   country_len : {1}]

NoCommand == [items |-> <<>>, customer_info |-> None, shipping_address |-> None]

\* the OrderItems a direct caller of the gateway passes: names and prices not
\* yet known, any price OrderItem accepts
PlaceholderItems(items) ==
  [i \in 1..Len(items) |->
     NewOrderItem(items[i].product_id, <<>>, items[i].quantity, 1).val]

\* bookkeeping of a run: the committed tables when it began, the number of
\* product_repository.update calls it issued, the exception first raised,
\* whether the gateway returned, whether order_repository.save was called,
\* the number of gateway methods invoked, the number of release_stock calls
NewHist == [pre |-> db, pre_orders |-> orders, updates |-> 0, cause |-> NoExc,
            reserved |-> FALSE, saved |-> FALSE, gateway_calls |-> 0,
            released |-> 0]
NewSession == [id \in KnownIds |-> NoRow]

\* =================================================================== Init
StoredRow(p, stock, is_active) ==
  [stock |-> stock, is_active |-> is_active, name |-> NameOf(p),
   price |-> PriceOf(p)]

InitCatalog ==
  /\ \E st \in [ProductIds -> 0..MaxStock], act \in [ProductIds -> BOOLEAN] :
       db = [id \in KnownIds |->
               IF id \in ProductIds THEN StoredRow(id, st[id], act[id])
               ELSE NoRow]
  /\ orders = <<>>

InitRequests ==
  /\ kind = [r \in Reqs |-> "idle"]
  /\ pc = [r \in Reqs |-> "idle"]
  /\ command = [r \in Reqs |-> NoCommand]
  /\ order_items = [r \in Reqs |-> <<>>]
  /\ idx = [r \in Reqs |-> 1]
  /\ product = [r \in Reqs |-> NoProduct]
  /\ products_info = [r \in Reqs |-> <<>>]
  /\ cache = [r \in Reqs |-> NewSession]
  /\ pending = [r \in Reqs |-> NewSession]
  /\ new_orders = [r \in Reqs |-> <<>>]
  /\ exc = [r \in Reqs |-> NoExc]
  /\ result = [r \in Reqs |-> None]
  /\ hist = [r \in Reqs |-> NewHist]

\* ====================================================== exception handlers
\* a gateway without its last clause, `except Exception`
GatewayExceptNoCatchAll(e) ==
  IF e = NotFoundError THEN StockReservationError
  ELSE IF e = BusinessRuleViolation THEN StockReservationError
  ELSE e

\* the except clauses of CatalogoInventoryGateway.verify_and_reserve_stock
GatewayExcept(e) ==
  IF e = NotFoundError THEN StockReservationError
  ELSE IF e = BusinessRuleViolation THEN StockReservationError
  ELSE StockReservationError          \* except Exception

\* the except clause around step 3 of PlaceOrderUseCase.execute
PlaceOrderExcept(e) ==
  IF e = StockReservationError THEN BusinessRuleViolation ELSE e

\* the exception that leaves request r's handler when e is raised inside
\* ReserveStockUseCase.execute or the gateway's try block
LeavesHandler(r, e) ==
  IF kind[r] = "place" THEN PlaceOrderExcept(GatewayExcept(e))
  ELSE GatewayExcept(e)

\* request r ends with e raised inside the gateway's try block
RaiseInGateway(r, e, h) ==
  /\ exc' = [exc EXCEPT ![r] = LeavesHandler(r, e)]
  /\ pc' = [pc EXCEPT ![r] = "raised"]
  /\ hist' = [hist EXCEPT ![r] = [h EXCEPT !.cause = e]]

\* ============================================== ReserveStockUseCase.execute
\* a ProductStockInfo that reports the stock the product had before the
\* reservation
ProductStockInfoStale(id, updated_product, quantity) ==
  [requested_quantity |-> quantity, unit_price |-> updated_product.price,
   product_id |-> id, product_name |-> updated_product.name,
   reserved_quantity |-> quantity,
   remaining_stock |-> updated_product.stock + quantity]

\* ProductStockInfo built from the product update() returned
ProductStockInfo(id, updated_product, quantity) ==
  [requested_quantity |-> quantity, unit_price |-> updated_product.price,
   product_id |-> id, product_name |-> updated_product.name,
   reserved_quantity |-> quantity,
   remaining_stock |-> updated_product.stock]

\* a back-fill that walks the response from its end
GatewayBackfillReversed(items, infos) ==
  [i \in 1..Len(items) |->
     IF i <= Len(infos)
     THEN [items[i] EXCEPT
             !.product_name = infos[Len(infos) + 1 - i].product_name,
             !.unit_price = infos[Len(infos) + 1 - i].unit_price]
     ELSE items[i]]

\* the gateway's loop over enumerate(response.products)
GatewayBackfill(items, infos) ==
  [i \in 1..Len(items) |->
     IF i <= Len(infos)
     THEN [items[i] EXCEPT !.product_name = infos[i].product_name,
                           !.unit_price = infos[i].unit_price]
     ELSE items[i]]

\* CatalogoInventoryGateway.verify_and_reserve_stock(items), called on its
\* own in a fresh session: builds the ReserveStockCommand (min_length=1) and
\* enters ReserveStockUseCase.execute up to its first await
GatewayCall(r, items) ==
  /\ kind[r] = "idle"
  /\ kind' = [kind EXCEPT ![r] = "reserve"]
  /\ command' = [command EXCEPT ![r] = [NoCommand EXCEPT !.items = items]]
  /\ order_items' = [order_items EXCEPT ![r] = PlaceholderItems(items)]
  /\ idx' = [idx EXCEPT ![r] = 1]
  /\ IF Len(items) = 0
     THEN /\ exc' = [exc EXCEPT ![r] = GatewayExcept(OtherException)]
          /\ pc' = [pc EXCEPT ![r] = "raised"]
          /\ hist' = [hist EXCEPT ![r] = [NewHist EXCEPT !.cause = OtherException,
                                                         !.gateway_calls = 1]]
     ELSE /\ pc' = [pc EXCEPT ![r] = "phase1"]
          /\ hist' = [hist EXCEPT ![r] = [NewHist EXCEPT !.gateway_calls = 1]]
          /\ UNCHANGED exc
  /\ UNCHANGED <<db, orders, product, products_info, cache, pending,
                 new_orders, result, orderVars, productVars, infraVars>>

\* a single loop that reserves and updates each item as soon as it has
\* passed its own check
Phase1StepWrites(r) ==
  /\ pc[r] = "phase1"
  /\ LET item == order_items[r][idx[r]]
         p    == GetById(r, item.product_id)
         row  == ProductReserveStock(p, item.quantity).val
     IN IF p = NoProduct
        THEN /\ RaiseInGateway(r, NotFoundError, hist[r])
             /\ UNCHANGED <<idx, cache, pending>>
        ELSE IF ~StockIsAvailable(p.stock, item.quantity)
        THEN /\ RaiseInGateway(r, BusinessRuleViolation, hist[r])
             /\ UNCHANGED <<idx, cache, pending>>
        ELSE /\ pending' = [pending EXCEPT ![r][item.product_id] = row]
             /\ cache' = [cache EXCEPT ![r][item.product_id] = row]
             /\ hist' = [hist EXCEPT ![r].updates = @ + 1]
             /\ idx' = [idx EXCEPT ![r] =
                          IF idx[r] < Len(order_items[r]) THEN idx[r] + 1 ELSE 1]
             /\ pc' = [pc EXCEPT ![r] =
                         IF idx[r] < Len(order_items[r]) THEN "phase1"
                         ELSE "phase2_get"]
             /\ UNCHANGED exc
  /\ UNCHANGED <<db, orders, kind, command, order_items, product,
                 products_info, new_orders, result, orderVars, productVars, infraVars>>

\* phase 1, one iteration: get_by_id, existence check, stock check
Phase1Step(r) ==
  /\ pc[r] = "phase1"
  /\ LET item == order_items[r][idx[r]]
         p    == GetById(r, item.product_id)
     IN /\ cache' = [cache EXCEPT ![r] = CacheAfterSelect(r, item.product_id)]
        /\ IF p = NoProduct
           THEN RaiseInGateway(r, NotFoundError, hist[r]) /\ UNCHANGED idx
           ELSE IF ~StockIsAvailable(p.stock, item.quantity)
           THEN RaiseInGateway(r, BusinessRuleViolation, hist[r]) /\ UNCHANGED idx
           ELSE /\ idx' = [idx EXCEPT ![r] =
                             IF idx[r] < Len(order_items[r]) THEN idx[r] + 1 ELSE 1]
                /\ pc' = [pc EXCEPT ![r] =
                            IF idx[r] < Len(order_items[r]) THEN "phase1"
                            ELSE "phase2_get"]
                /\ UNCHANGED <<exc, hist>>
  /\ UNCHANGED <<db, orders, kind, command, order_items, product,
                 products_info, pending, new_orders, result, orderVars, productVars, infraVars>>

\* phase 2, first half of an iteration: get_by_id, product.reserve_stock
Phase2Get(r) ==
  /\ pc[r] = "phase2_get"
  /\ LET item == order_items[r][idx[r]]
         p    == GetById(r, item.product_id)
         rs   == ProductReserveStock(p, item.quantity)
     IN /\ cache' = [cache EXCEPT ![r] = CacheAfterSelect(r, item.product_id)]
        /\ IF p = NoProduct
           THEN RaiseInGateway(r, OtherException, hist[r]) /\ UNCHANGED product
           ELSE IF rs.exc # NoExc
           THEN RaiseInGateway(r, rs.exc, hist[r]) /\ UNCHANGED product
           ELSE /\ product' = [product EXCEPT ![r] = rs.val]
                /\ pc' = [pc EXCEPT ![r] = "phase2_update"]
                /\ UNCHANGED <<exc, hist>>
  /\ UNCHANGED <<db, orders, kind, command, order_items, idx, products_info,
                 pending, new_orders, result, orderVars, productVars, infraVars>>

\* ================================================ SQLAlchemyOrderRepository
\* _to_domain(model): the OrderItems and the Order are constructed again from
\* the stored columns, total_amount included
OrderToDomain(model, t) ==
  IF \E i \in 1..Len(model.items) :
       OrderItemPostInit(model.items[i].unit_price) # NoExc
  THEN [exc |-> BusinessRuleViolation, val |-> model]
  ELSE LET o == NewOrder(model.customer_info, model.items,
                         model.shipping_address, model.status,
                         model.total_amount, model.confirmed_at, t)
       IN [exc |-> o.exc,
           val |-> [o.val EXCEPT !.created_at = model.created_at,
                                 !.updated_at = model.updated_at]]

\* steps 4-7 of PlaceOrderUseCase.execute, entered when the gateway returned:
\* Order(...), order.confirm(), order_repository.save(order), response.
\* [exc, result, saved, inserted]: inserted is the rows save() flushed
PlaceOrderTail(cmd, items, t) ==
  LET built == NewOrder(cmd.customer_info, items, cmd.shipping_address,
                        PENDING, 0, NoTime, t)
      conf  == OrderConfirm(built.val, t)
      back  == OrderToDomain(conf.val, t)
      nothing == [exc |-> NoExc, result |-> None, saved |-> FALSE,
                  inserted |-> <<>>]
  IN IF built.exc # NoExc THEN [nothing EXCEPT !.exc = built.exc]
     ELSE IF conf.exc # NoExc THEN [nothing EXCEPT !.exc = conf.exc]
     ELSE IF back.exc # NoExc
     THEN [exc |-> back.exc, result |-> None, saved |-> TRUE,
           inserted |-> <<conf.val>>]
     ELSE [exc |-> NoExc,
           result |->
             [items |-> [i \in 1..Len(back.val.items) |->
                [quantity |-> back.val.items[i].quantity,
                 unit_price |-> back.val.items[i].unit_price,
                 product_id |-> back.val.items[i].product_id,
                 product_name |-> back.val.items[i].product_name,
                 subtotal |-> CalculateSubtotal(back.val.items[i])]],
              status |-> back.val.status,
              total_amount |-> back.val.total_amount],
           saved |-> TRUE,
           inserted |-> <<conf.val>>]

\* phase 2, second half of an iteration: product_repository.update(product)
\* (SELECT, assign, flush, refresh), products_info.append; after the last
\* item the use case returns, the gateway back-fills the OrderItems and
\* returns response.success, and a placement goes on to its steps 4-7
Phase2Update(r) ==
  /\ pc[r] = "phase2_update"
  /\ LET item  == order_items[r][idx[r]]
         id    == item.product_id
         model == SelectModel(r, id)
         row   == FlushedRow(r, id, product[r])
         infos == Append(products_info[r], ProductStockInfo(id, row, item.quantity))
         items == GatewayBackfill(order_items[r], infos)
         h     == [hist[r] EXCEPT !.updates = @ + 1]
         tail  == PlaceOrderTail(command[r], items, now)
     IN IF model = NoRow
        THEN /\ RaiseInGateway(r, OtherException, h)
             /\ UNCHANGED <<cache, pending, products_info, idx, order_items,
                            new_orders, result>>
        ELSE /\ ~RowLockedByOther(r, id)
             /\ pending' = [pending EXCEPT ![r][id] = row]
             /\ cache' = [cache EXCEPT ![r][id] = row]
             /\ products_info' = [products_info EXCEPT ![r] = infos]
             /\ IF idx[r] < Len(order_items[r])
                THEN /\ idx' = [idx EXCEPT ![r] = idx[r] + 1]
                     /\ pc' = [pc EXCEPT ![r] = "phase2_get"]
                     /\ hist' = [hist EXCEPT ![r] = h]
                     /\ UNCHANGED <<order_items, new_orders, result, exc>>
                ELSE /\ order_items' = [order_items EXCEPT ![r] = items]
                     /\ UNCHANGED idx
                     /\ IF kind[r] = "place"
                        THEN /\ new_orders' = [new_orders EXCEPT ![r] = @ \o tail.inserted]
                             /\ exc' = [exc EXCEPT ![r] = tail.exc]
                             /\ result' = [result EXCEPT ![r] = tail.result]
                             /\ pc' = [pc EXCEPT ![r] =
                                         IF tail.exc # NoExc THEN "raised" ELSE "returned"]
                             /\ hist' = [hist EXCEPT ![r] =
                                           [h EXCEPT !.reserved = TRUE,
                                                     !.saved = tail.saved,
                                                     !.cause = tail.exc]]
                        ELSE /\ result' = [result EXCEPT ![r] = [success |-> TRUE]]
                             /\ pc' = [pc EXCEPT ![r] = "returned"]
                             /\ hist' = [hist EXCEPT ![r] = [h EXCEPT !.reserved = TRUE]]
                             /\ UNCHANGED <<new_orders, exc>>
  /\ UNCHANGED <<db, orders, kind, command, product, orderVars, productVars, infraVars>>

\* the flush of request r waits for a row request r2 has written while r2
\* waits for a row r has written: the database aborts the statement of r
DeadlockAbort(r) ==
  /\ pc[r] = "phase2_update"
  /\ \E r2 \in Reqs \ {r} :
       /\ pc[r2] = "phase2_update"
       /\ pending[r2][order_items[r][idx[r]].product_id] # NoRow
       /\ pending[r][order_items[r2][idx[r2]].product_id] # NoRow
  /\ RaiseInGateway(r, OtherException, [hist[r] EXCEPT !.updates = @ + 1])
  /\ UNCHANGED <<db, orders, kind, command, order_items, idx, product,
                 products_info, cache, pending, new_orders, result, orderVars, productVars, infraVars>>

\* ================================================ PlaceOrderUseCase.execute
\* a placement that inserts the order as a draft before anything is checked
PlaceOrderCallSavesDraft(r, cmd) ==
  /\ kind[r] = "idle"
  /\ kind' = [kind EXCEPT ![r] = "place"]
  /\ command' = [command EXCEPT ![r] = cmd]
  /\ idx' = [idx EXCEPT ![r] = 1]
  /\ new_orders' = [new_orders EXCEPT ![r] =
       <<NewOrder(cmd.customer_info, PlaceholderItems(cmd.items),
                  cmd.shipping_address, PENDING, 0, NoTime, now).val>>]
  /\ LET e == IF CustomerInfoPostInit(cmd.customer_info) # NoExc
              THEN CustomerInfoPostInit(cmd.customer_info)
              ELSE AddressPostInit(cmd.shipping_address)
     IN /\ exc' = [exc EXCEPT ![r] = e]
        /\ pc' = [pc EXCEPT ![r] = IF e # NoExc THEN "raised" ELSE "verify_exists"]
        /\ hist' = [hist EXCEPT ![r] = [NewHist EXCEPT !.cause = e, !.saved = TRUE]]
  /\ UNCHANGED <<db, orders, order_items, product, products_info, cache,
                 pending, result, orderVars, productVars, infraVars>>

\* a placement that goes on to look the products up whatever step 1 found
PlaceOrderCallValidatesLate(r, cmd) ==
  /\ kind[r] = "idle"
  /\ kind' = [kind EXCEPT ![r] = "place"]
  /\ command' = [command EXCEPT ![r] = cmd]
  /\ idx' = [idx EXCEPT ![r] = 1]
  /\ pc' = [pc EXCEPT ![r] = "verify_exists"]
  /\ hist' = [hist EXCEPT ![r] = NewHist]
  /\ UNCHANGED <<db, orders, order_items, product, products_info, cache,
                 pending, new_orders, exc, result, orderVars, productVars, infraVars>>

\* step 1 (CustomerInfo, Address) and the entry into the loop of step 2
PlaceOrderCall(r, cmd) ==
  /\ kind[r] = "idle"
  /\ kind' = [kind EXCEPT ![r] = "place"]
  /\ command' = [command EXCEPT ![r] = cmd]
  /\ idx' = [idx EXCEPT ![r] = 1]
  /\ LET e == IF CustomerInfoPostInit(cmd.customer_info) # NoExc
              THEN CustomerInfoPostInit(cmd.customer_info)
              ELSE AddressPostInit(cmd.shipping_address)
     IN /\ exc' = [exc EXCEPT ![r] = e]
        /\ pc' = [pc EXCEPT ![r] = IF e # NoExc THEN "raised" ELSE "verify_exists"]
        /\ hist' = [hist EXCEPT ![r] = [NewHist EXCEPT !.cause = e]]
  /\ UNCHANGED <<db, orders, order_items, product, products_info, cache,
                 pending, new_orders, result, orderVars, productVars, infraVars>>

\* step 2, one iteration: await verify_product_exists(product_id), then
\* OrderItem(product_id, "", Quantity(quantity), 0.0); after the last item,
\* step 3 calls the gateway, which runs up to its first await
PlaceVerifyItem(r) ==
  /\ pc[r] = "verify_exists"
  /\ LET item_cmd == command[r].items[idx[r]]
         exists   == GetById(r, item_cmd.product_id) # NoProduct
         made     == NewOrderItem(item_cmd.product_id, <<>>, item_cmd.quantity, 0)
         e        == IF ~exists THEN NotFoundError
                     ELSE IF QuantityPostInit(item_cmd.quantity) # NoExc
                     THEN QuantityPostInit(item_cmd.quantity)
                     ELSE made.exc
     IN /\ cache' = [cache EXCEPT ![r] = CacheAfterSelect(r, item_cmd.product_id)]
        /\ IF e # NoExc
           THEN /\ exc' = [exc EXCEPT ![r] = e]
                /\ pc' = [pc EXCEPT ![r] = "raised"]
                /\ hist' = [hist EXCEPT ![r].cause = e, ![r].gateway_calls = @ + 1]
                /\ UNCHANGED <<order_items, idx>>
           ELSE /\ order_items' = [order_items EXCEPT ![r] = Append(@, made.val)]
                /\ idx' = [idx EXCEPT ![r] =
                             IF idx[r] < Len(command[r].items) THEN idx[r] + 1 ELSE 1]
                /\ pc' = [pc EXCEPT ![r] =
                            IF idx[r] < Len(command[r].items) THEN "verify_exists"
                            ELSE "phase1"]
                /\ hist' = [hist EXCEPT ![r].gateway_calls =
                              IF idx[r] < Len(command[r].items) THEN @ + 1 ELSE @ + 2]
                /\ UNCHANGED exc
  /\ UNCHANGED <<db, orders, kind, command, product, products_info, pending,
                 new_orders, result, orderVars, productVars, infraVars>>

\* Steps 3-7 of PlaceOrderUseCase.execute taken on their own: the call is
\* entered after step 1 accepted the customer and the address, with the item
\* list step 2 is written to hand over (one OrderItem per command item, name
\* and price still to be filled in by the gateway), and runs the gateway up
\* to its first await.
PlaceOrderFromStep3(r, cmd) ==
  /\ kind[r] = "idle"
  /\ CustomerInfoPostInit(cmd.customer_info) = NoExc
  /\ AddressPostInit(cmd.shipping_address) = NoExc
  /\ \A i \in 1..Len(cmd.items) : db[cmd.items[i].product_id] # NoRow
  /\ kind' = [kind EXCEPT ![r] = "place"]
  /\ command' = [command EXCEPT ![r] = cmd]
  /\ order_items' = [order_items EXCEPT ![r] = PlaceholderItems(cmd.items)]
  /\ idx' = [idx EXCEPT ![r] = 1]
  /\ pc' = [pc EXCEPT ![r] = "phase1"]
  /\ hist' = [hist EXCEPT ![r] =
                [NewHist EXCEPT !.gateway_calls = Len(cmd.items) + 1]]
  /\ UNCHANGED <<db, orders, product, products_info, cache, pending,
                 new_orders, exc, result, orderVars, productVars, infraVars>>

\* CatalogoInventoryGateway.release_stock(items), called after the
\* reservation returned: the placeholder returns True
GatewayReleaseStock(r) ==
  /\ kind[r] = "reserve"
  /\ pc[r] = "returned"
  /\ hist[r].released < MaxReleases
  /\ result' = [result EXCEPT ![r] = [success |-> TRUE]]
  /\ hist' = [hist EXCEPT ![r].released = @ + 1]
  /\ UNCHANGED <<db, orders, kind, pc, command, order_items, idx, product,
                 products_info, cache, pending, new_orders, exc, orderVars, productVars, infraVars>>

\* ============================================================ get_db_session
\* the handler returned: session.commit()
SessionCommit(r) ==
  /\ pc[r] = "returned"
  /\ db' = [id \in KnownIds |->
              IF pending[r][id] # NoRow THEN pending[r][id] ELSE db[id]]
  /\ orders' = orders \o new_orders[r]
  /\ pending' = [pending EXCEPT ![r] = NewSession]
  /\ new_orders' = [new_orders EXCEPT ![r] = <<>>]
  /\ pc' = [pc EXCEPT ![r] = "committed"]
  /\ UNCHANGED <<kind, command, order_items, idx, product, products_info,
                 cache, exc, result, hist, orderVars, productVars, infraVars>>

\* a session that commits what was flushed when the handler raised
SessionRollbackCommits(r) ==
  /\ pc[r] = "raised"
  /\ db' = [id \in KnownIds |->
              IF pending[r][id] # NoRow THEN pending[r][id] ELSE db[id]]
  /\ orders' = orders \o new_orders[r]
  /\ pending' = [pending EXCEPT ![r] = NewSession]
  /\ new_orders' = [new_orders EXCEPT ![r] = <<>>]
  /\ cache' = [cache EXCEPT ![r] = NewSession]
  /\ pc' = [pc EXCEPT ![r] = "rolledback"]
  /\ UNCHANGED <<kind, command, order_items, idx, product, products_info,
                 exc, result, hist, orderVars, productVars, infraVars>>

\* an exception left the handler: session.rollback(), which also expires
\* every object of the identity map, then the exception is raised again
SessionRollback(r) ==
  /\ pc[r] = "raised"
  /\ pending' = [pending EXCEPT ![r] = NewSession]
  /\ new_orders' = [new_orders EXCEPT ![r] = <<>>]
  /\ cache' = [cache EXCEPT ![r] = NewSession]
  /\ pc' = [pc EXCEPT ![r] = "rolledback"]
  /\ UNCHANGED <<db, orders, kind, command, order_items, idx, product,
                 products_info, exc, result, hist, orderVars, productVars, infraVars>>

\* finally: session.close(); the slot is free for the next request
SessionClose(r) ==
  /\ pc[r] \in {"committed", "rolledback"}
  /\ kind' = [kind EXCEPT ![r] = "idle"]
  /\ pc' = [pc EXCEPT ![r] = "idle"]
  /\ command' = [command EXCEPT ![r] = NoCommand]
  /\ order_items' = [order_items EXCEPT ![r] = <<>>]
  /\ idx' = [idx EXCEPT ![r] = 1]
  /\ product' = [product EXCEPT ![r] = NoProduct]
  /\ products_info' = [products_info EXCEPT ![r] = <<>>]
  /\ cache' = [cache EXCEPT ![r] = NewSession]
  /\ exc' = [exc EXCEPT ![r] = NoExc]
  /\ result' = [result EXCEPT ![r] = None]
  /\ hist' = [hist EXCEPT ![r] = NewHist]
  /\ UNCHANGED <<db, orders, pending, new_orders, orderVars, productVars, infraVars>>

\* ==================================================== the Order under test
\* a PENDING order of one item, as Order(..., total_amount=total_amount)
\* builds it at clock reading 0
InitOrderWith(total_amount) ==
  /\ now = 0
  /\ order = NewOrder([customer_id_len |-> 1, name_len |-> 3, has_at |-> TRUE,
                       phone_len |-> 1],
                      <<NewOrderItem(1, NameOf(1), 1, PriceOf(1)).val>>,
                      [street_len |-> 5, city_len |-> 2, state_len |-> 1,
                       postal_len |-> 1, country_len |-> 1],
                      PENDING, total_amount, NoTime, 0).val
  /\ last = [exc |-> NoExc, op |-> "new", before |-> order]

\* total_amount left at its default 0.0
InitOrder == InitOrderWith(0)

\* total_amount arguments given to Order(...): the default, the sum of the
\* items, and an amount that is not the sum
SuppliedTotals == {0, PriceOf(1), PriceOf(1) + PriceOf(2)}

\* datetime.utcnow() advances
Tick ==
  /\ now < MaxClock
  /\ now' = now + 1
  /\ UNCHANGED <<db, orders, reqVars, order, last, productVars, infraVars>>

\* one call of a lifecycle method on the order; res is what the method did
OrderCall(op, res) ==
  /\ order' = res.val
  /\ last' = [exc |-> res.exc, op |-> op, before |-> order]
  /\ UNCHANGED <<db, orders, reqVars, now, productVars, infraVars>>

Confirm          == OrderCall("confirm", OrderConfirm(order, now))
Cancel           == OrderCall("cancel", OrderCancel(order, now))
MarkAsProcessing == OrderCall("mark_as_processing", OrderMarkAsProcessing(order, now))
MarkAsShipped    == OrderCall("mark_as_shipped", OrderMarkAsShipped(order, now))
MarkAsDelivered  == OrderCall("mark_as_delivered", OrderMarkAsDelivered(order, now))

\* order.add_item(OrderItem(...)) with an item of a catalog product
AddItem ==
  /\ order.status # PENDING \/ Len(order.items) < MaxOrderItems
  /\ \E id \in ProductIds, q \in 1..MaxQty :
       OrderCall("add_item",
                 OrderAddItem(order, NewOrderItem(id, NameOf(id), q, PriceOf(id)).val, now))

\* ================================================== the Product under test
\* arguments given to the stock methods, negative ones included
QtyArgs == (0 - 1)..(MaxQty + 1)

\* largest stock the replenishments are taken to
StockCap == MaxStock + MaxQty

\* amounts in cents given as prices: 0.18, 0.27, 100.00, 140.00, 150.00, 160.00
PriceAmounts == {18, 27, 10000, 14000, 15000, 16000}

\* name and description arguments: "", "AB", "ABA", "Door"; "", "B"
NameArgs == {<<>>, <<"A", "B">>, <<"A", "B", "A">>, <<"D", "o", "o", "r">>}
DescriptionArgs == {<<>>, <<"B">>}

\* the Optional[str] arguments over a set of strings
OptionalStr(S) == {Str(chars) : chars \in S} \cup {NoStr}

\* the name the product under test is constructed with
ProductName == <<"D", "o", "o", "r">>

\* a Product as its constructor leaves it, and a Stock(sq)
InitProductWith(stock, is_active, price, sq) ==
  /\ prod = [stock |-> stock, is_active |-> is_active, name |-> ProductName,
             description |-> <<>>, price |-> price]
  /\ plast = [exc |-> NoExc, op |-> "new", before |-> prod, arg |-> 0]
  /\ stock_vo = sq
  /\ slast = [exc |-> NoExc, val |-> sq, op |-> "new", before |-> sq, arg |-> 0]

InitProduct == InitProductWith(MaxStock, TRUE, PriceOf(1), MaxStock)

\* a product call whose effect shows in the order's items, as it would if
\* the items referred to the Product instead of holding copies
ProductCallLiveItems(op, arg, res) ==
  /\ prod' = res.val
  /\ plast' = [exc |-> res.exc, op |-> op, before |-> prod, arg |-> arg]
  /\ order' = [order EXCEPT !.items =
                 [i \in 1..Len(order.items) |->
                    [order.items[i] EXCEPT !.unit_price = res.val.price,
                                           !.product_name = res.val.name]]]
  /\ UNCHANGED <<db, orders, reqVars, now, last, stock_vo, slast, infraVars>>

\* one call of a method on the product; res is what the method did
ProductCall(op, arg, res) ==
  /\ prod' = res.val
  /\ plast' = [exc |-> res.exc, op |-> op, before |-> prod, arg |-> arg]
  /\ UNCHANGED <<db, orders, reqVars, orderVars, stock_vo, slast, infraVars>>

ReserveStockCall ==
  \E q \in QtyArgs : ProductCall("reserve_stock", q, ProductReserveStock(prod, q))

ReplenishStockCall ==
  \E q \in QtyArgs :
    /\ prod.stock + q <= StockCap
    /\ ProductCall("replenish_stock", q, ProductReplenishStock(prod, q))

UpdatePriceCall ==
  \E a \in PriceAmounts :
    /\ PricePostInit(a) = NoExc
    /\ ProductCall("update_price", a, ProductUpdatePrice(prod, a))

UpdateDetailsCall ==
  \E name \in OptionalStr(NameArgs), description \in OptionalStr(DescriptionArgs) :
    ProductCall("update_details", [name |-> name, description |-> description],
                ProductUpdateDetails(prod, name, description))

DeactivateCall == ProductCall("deactivate", 0, ProductDeactivate(prod))
ActivateCall   == ProductCall("activate", 0, ProductActivate(prod))

\* an order placed for q units of the product: the reservation
\* (Product.reserve_stock, ProductStockInfo of the updated product), the
\* gateway's back-fill of the OrderItem, Order(...) and confirm()
ReserveAndBuildOrder ==
  \E q \in 1..MaxQty :
    LET rs    == ProductReserveStock(prod, q)
        info  == ProductStockInfo(1, rs.val, q)
        items == GatewayBackfill(PlaceholderItems(<<[quantity |-> q, product_id |-> 1]>>),
                                 <<info>>)
        built == NewOrder(order.customer_info, items, order.shipping_address,
                          PENDING, 0, NoTime, now)
        conf  == OrderConfirm(built.val, now)
    IN /\ prod.price # NoPrice
       /\ rs.exc = NoExc
       /\ prod' = rs.val
       /\ plast' = [exc |-> NoExc, op |-> "reserve_stock", before |-> prod, arg |-> q]
       /\ order' = conf.val
       /\ last' = [exc |-> conf.exc, op |-> "place", before |-> built.val]
       /\ UNCHANGED <<db, orders, reqVars, now, stock_vo, slast, infraVars>>

\* one call of a method on the Stock; the instance is frozen, the method
\* returns a new Stock or raises
StockCall(op, arg, res) ==
  /\ slast' = [exc |-> res.exc, val |-> res.val, op |-> op, before |-> stock_vo,
               arg |-> arg]
  /\ UNCHANGED <<db, orders, reqVars, orderVars, prod, plast, stock_vo, infraVars>>

DecreaseCall ==
  \E a \in QtyArgs : StockCall("decrease", a, StockDecrease(stock_vo, a))

IncreaseCall ==
  \E a \in QtyArgs : StockCall("increase", a, StockIncrease(stock_vo, a))

\* ========================================================= product creation
\* strings are sequences of characters
LowerChars == {"p", "r", "o", "d"}
UpperChars == {"P", "R", "O", "D", "A", "B"}
DigitChars == {"1", "2"}

\* str.isalnum() of one character
IsAlnum(c) == c \in LowerChars \cup UpperChars \cup DigitChars

\* str.upper() of one character and of a string
UpperChar(c) ==
  CASE c = "p" -> "P" [] c = "r" -> "R" [] c = "o" -> "O" [] c = "d" -> "D"
    [] OTHER -> c

Upper(v) == [i \in 1..Len(v) |-> UpperChar(v[i])]

\* all(c.isalnum() or c == '-' for c in v)
AlnumOrDash(v) == \A i \in 1..Len(v) : IsAlnum(v[i]) \/ v[i] = "-"

\* SKU.__post_init__
SKUPostInit(value) ==
  IF Len(value) = 0 THEN ValidationError
  ELSE IF Len(value) < 5 THEN ValidationError
  ELSE IF ~AlnumOrDash(value) THEN ValidationError
  ELSE NoExc

\* SKU(value=...): [exc, val]; the frozen dataclass holds the value as given
NewSKU(value) == [exc |-> SKUPostInit(value), val |-> value]

\* CreateProductCommand: field sku with min_length=5 and validate_sku_format;
\* pydantic's error is not a DomainError
CreateProductCommand(sku) ==
  IF Len(sku) < 5 THEN [exc |-> OtherException, val |-> sku]
  ELSE IF ~AlnumOrDash(sku) THEN [exc |-> OtherException, val |-> sku]
  ELSE [exc |-> NoExc, val |-> Upper(sku)]

\* sku strings received: "prod-1", "PROD-1", "Prod-2", "AB", "", "PROD@1"
SkuInputs ==
  {<<"p", "r", "o", "d", "-", "1">>, <<"P", "R", "O", "D", "-", "1">>,
   <<"P", "r", "o", "d", "-", "2">>, <<"A", "B">>, <<>>,
   <<"P", "R", "O", "D", "@", "1">>}

NoCreate == [pc |-> "idle", exc |-> NoExc, row |-> NoRow, sku |-> <<>>, input |-> <<>>]

InitCreate ==
  /\ sku_rows = <<>>
  /\ create = [r \in Reqs |-> NoCreate]
  /\ ncreates = 0
  /\ sku_vo = [exc |-> NoExc, val |-> <<"P", "R", "O", "D", "-", "1">>,
               arg |-> <<"P", "R", "O", "D", "-", "1">>]

\* the committed rows holding sku
RowsWithSku(sku) == {i \in 1..Len(sku_rows) : sku_rows[i].sku = sku}

\* another open transaction has inserted a row with this sku
SkuLockedByOther(r, sku) ==
  \E r2 \in Reqs \ {r} :
    IF create[r2].row = NoRow THEN FALSE ELSE create[r2].row.sku = sku

\* a request arrives: the body is parsed into CreateProductCommand and
\* ProductFactory.create_from_primitives builds the Product (steps up to the
\* first await of CreateProductUseCase.execute)
CreateProductCall(r, input) ==
  /\ create[r].pc = "idle"
  /\ ncreates < MaxCreates
  /\ ncreates' = ncreates + 1
  /\ LET cmd == CreateProductCommand(input)
         sku == NewSKU(cmd.val)
     IN create' = [create EXCEPT ![r] =
          IF cmd.exc # NoExc
          THEN [pc |-> "raised", exc |-> cmd.exc, row |-> NoRow,
                sku |-> cmd.val, input |-> input]
          ELSE IF sku.exc # NoExc
          THEN [pc |-> "raised", exc |-> sku.exc, row |-> NoRow,
                sku |-> cmd.val, input |-> input]
          ELSE [pc |-> "exists", exc |-> NoExc, row |-> NoRow,
                sku |-> sku.val, input |-> input]]
  /\ UNCHANGED <<db, orders, reqVars, orderVars, productVars, sku_rows, sku_vo, mgrVars>>

\* await product_repository.exists_by_sku(product.sku): a SELECT that sees
\* the committed rows; True raises BusinessRuleViolation
CreateExistsBySku(r) ==
  /\ create[r].pc = "exists"
  /\ create' = [create EXCEPT ![r] =
       IF RowsWithSku(create[r].sku) # {}
       THEN [@ EXCEPT !.pc = "raised", !.exc = BusinessRuleViolation]
       ELSE [@ EXCEPT !.pc = "save"]]
  /\ UNCHANGED <<db, orders, reqVars, orderVars, productVars, sku_rows,
                 ncreates, sku_vo, mgrVars>>

\* await product_repository.save(product): session.add and flush.  The
\* INSERT waits while another open transaction holds the same key of the
\* unique index on sku, and fails with IntegrityError when a committed row
\* holds it
CreateSave(r) ==
  /\ create[r].pc = "save"
  /\ ~SkuLockedByOther(r, create[r].sku)
  /\ create' = [create EXCEPT ![r] =
       IF RowsWithSku(create[r].sku) # {}
       THEN [@ EXCEPT !.pc = "raised", !.exc = OtherException]
       ELSE [@ EXCEPT !.pc = "returned",
                      !.row = [product_id |-> ncreates, sku |-> create[r].sku]]]
  /\ UNCHANGED <<db, orders, reqVars, orderVars, productVars, sku_rows,
                 ncreates, sku_vo, mgrVars>>

\* get_db_session after the handler returned: session.commit(), close
CreateCommit(r) ==
  /\ create[r].pc = "returned"
  /\ sku_rows' = Append(sku_rows, create[r].row)
  /\ create' = [create EXCEPT ![r] = NoCreate]
  /\ UNCHANGED <<db, orders, reqVars, orderVars, productVars, ncreates, sku_vo, mgrVars>>

\* get_db_session after an exception: session.rollback(), close
CreateRollback(r) ==
  /\ create[r].pc = "raised"
  /\ create' = [create EXCEPT ![r] = NoCreate]
  /\ UNCHANGED <<db, orders, reqVars, orderVars, productVars, sku_rows,
                 ncreates, sku_vo, mgrVars>>

\* SKU(value=v) constructed directly
SkuConstruct ==
  \E v \in SkuInputs :
    /\ sku_vo' = [exc |-> NewSKU(v).exc, val |-> NewSKU(v).val, arg |-> v]
    /\ UNCHANGED <<db, orders, reqVars, orderVars, productVars, sku_rows,
                   create, ncreates, mgrVars>>

\* ======================================================== RepositoryManager
NoSession == 0                        \* _current_session = None
NoRepository == [id |-> 0, session |-> NoSession]   \* _product_repository = None

\* SQLAlchemyProductRepository(session): a new instance holding the session
NewRepository(id, session) == [id |-> id, session |-> session]

InitManager ==
  /\ manager = [current_session |-> NoSession, product_repository |-> NoRepository]
  /\ req_repo = [r \in Reqs |-> [session |-> NoSession, repository |-> NoRepository]]
  /\ returned = {}
  /\ alloc = [sessions |-> 0, repositories |-> 0, calls |-> 0]

\* get_db_session: AsyncSessionLocal() gives the request a new session
SessionOpen(r) ==
  /\ req_repo[r].session = NoSession
  /\ alloc.sessions < MaxSessions
  /\ alloc' = [alloc EXCEPT !.sessions = @ + 1]
  /\ req_repo' = [req_repo EXCEPT ![r] =
       [session |-> alloc.sessions + 1, repository |-> NoRepository]]
  /\ UNCHANGED <<db, orders, reqVars, orderVars, productVars, createVars,
                 manager, returned>>

\* a manager that hands out its cached repository whenever it has one
ManagerGetCached(m, session, id) ==
  IF m.product_repository = NoRepository
  THEN [current_session |-> session,
        product_repository |-> NewRepository(id, session)]
  ELSE m

\* RepositoryManager.get_product_repository(session): the manager after the
\* call; its product_repository is the instance returned.  id is the
\* identity a newly created instance gets
ManagerGet(m, session, id) ==
  IF m.current_session # session \/ m.product_repository = NoRepository
  THEN [current_session |-> session,
        product_repository |-> NewRepository(id, session)]
  ELSE m

\* a request calls repo_manager.get_product_repository(session) with its
\* session; the method has no await, so the call is one step
GetProductRepository(r) ==
  /\ req_repo[r].session # NoSession
  /\ alloc.calls < MaxRepoCalls
  /\ LET m == ManagerGet(manager, req_repo[r].session, alloc.repositories + 1)
     IN /\ manager' = m
        /\ req_repo' = [req_repo EXCEPT ![r].repository = m.product_repository]
        /\ returned' = returned \cup
             {[session |-> req_repo[r].session, repository |-> m.product_repository]}
        /\ alloc' = [alloc EXCEPT
             !.calls = @ + 1,
             !.repositories = IF m.product_repository.id > @
                              THEN m.product_repository.id ELSE @]
  /\ UNCHANGED <<db, orders, reqVars, orderVars, productVars, createVars>>

\* get_db_session: the request is over, session.close(); the manager keeps
\* what it cached
SessionEnd(r) ==
  /\ req_repo[r].session # NoSession
  /\ req_repo' = [req_repo EXCEPT ![r] =
       [session |-> NoSession, repository |-> NoRepository]]
  /\ UNCHANGED <<db, orders, reqVars, orderVars, productVars, createVars,
                 manager, returned, alloc>>

\* ========================================================== specifications
Init == InitCatalog /\ InitRequests /\ InitOrder /\ InitProduct /\ InitCreate /\ InitManager

\* requests served one after the other
Next ==
  \E r \in SeqReqs :
    \/ \E items \in ItemLists(0, MaxItems) : GatewayCall(r, items)
    \/ \E c \in CustomerInfoCommands, a \in AddressCommands,
          items \in ItemLists(1, PlaceMaxItems) :
         PlaceOrderCall(r, [items |-> items, customer_info |-> c,
                            shipping_address |-> a])
    \/ PlaceVerifyItem(r)
    \/ Phase1Step(r)
    \/ Phase2Get(r)
    \/ Phase2Update(r)
    \/ GatewayReleaseStock(r)
    \/ SessionCommit(r)
    \/ SessionRollback(r)
    \/ SessionClose(r)

Spec == Init /\ [][Next]_vars

\* order placements from step 3 on, served one after the other
NextFromStep3 ==
  \E r \in SeqReqs :
    \/ \E c \in CustomerInfoCommands, a \in AddressCommands,
          items \in ItemLists(1, PlaceMaxItems) :
         PlaceOrderFromStep3(r, [items |-> items, customer_info |-> c,
                                 shipping_address |-> a])
    \/ Phase1Step(r)
    \/ Phase2Get(r)
    \/ Phase2Update(r)
    \/ SessionCommit(r)
    \/ SessionRollback(r)
    \/ SessionClose(r)

SpecFromStep3 == Init /\ [][NextFromStep3]_vars

\* two requests, each in its own session, interleaved at their awaits
InitConc ==
  /\ Init
  /\ \A p \in ProductIds : db[p].is_active

NextConc ==
  \E r \in Reqs :
    \/ \E items \in ItemLists(1, ConcMaxItems) :
         /\ \A i \in 1..Len(items) : items[i].product_id \in ProductIds
         /\ GatewayCall(r, items)
    \/ Phase1Step(r)
    \/ Phase2Get(r)
    \/ Phase2Update(r)
    \/ DeadlockAbort(r)
    \/ SessionCommit(r)
    \/ SessionRollback(r)

SpecConc == InitConc /\ [][NextConc]_vars

\* the lifecycle of one Order
InitOrderOnly ==
  /\ db = [id \in KnownIds |->
             IF id \in ProductIds THEN StoredRow(id, MaxStock, TRUE) ELSE NoRow]
  /\ orders = <<>>
  /\ InitRequests
  /\ \E total_amount \in SuppliedTotals : InitOrderWith(total_amount)
  /\ InitProduct
  /\ InitCreate
  /\ InitManager

NextOrder ==
  \/ Tick
  \/ AddItem
  \/ Confirm
  \/ Cancel
  \/ MarkAsProcessing
  \/ MarkAsShipped
  \/ MarkAsDelivered

SpecOrder == InitOrderOnly /\ [][NextOrder]_vars

\* the methods of one Product and of one Stock
InitProductOnly ==
  /\ db = [id \in KnownIds |->
             IF id \in ProductIds THEN StoredRow(id, MaxStock, TRUE) ELSE NoRow]
  /\ orders = <<>>
  /\ InitRequests
  /\ InitOrder
  /\ \E st \in 0..MaxStock, act \in BOOLEAN, pr \in PriceAmounts \cup {NoPrice},
        sq \in 0..MaxStock :
       InitProductWith(st, act, pr, sq)
  /\ InitCreate
  /\ InitManager

NextProduct ==
  \/ ReserveStockCall
  \/ ReplenishStockCall
  \/ UpdatePriceCall
  \/ DeactivateCall
  \/ ActivateCall
  \/ DecreaseCall
  \/ IncreaseCall

SpecProduct == InitProductOnly /\ [][NextProduct]_vars

\* the mutators of one Product, update_details included
NextDetails ==
  \/ UpdateDetailsCall
  \/ ReserveStockCall
  \/ ReplenishStockCall
  \/ UpdatePriceCall
  \/ DeactivateCall
  \/ ActivateCall

SpecDetails == InitProductOnly /\ [][NextDetails]_vars

\* an order built from a reservation of the product, and the product's
\* mutators called afterwards
InitSnapshot ==
  /\ db = [id \in KnownIds |->
             IF id \in ProductIds THEN StoredRow(id, MaxStock, TRUE) ELSE NoRow]
  /\ orders = <<>>
  /\ InitRequests
  /\ InitOrder
  /\ InitProductWith(MaxStock, TRUE, 10000, MaxStock)
  /\ InitCreate
  /\ InitManager

NextSnapshot ==
  \/ ReserveAndBuildOrder
  \/ UpdateDetailsCall
  \/ ReserveStockCall
  \/ ReplenishStockCall
  \/ UpdatePriceCall
  \/ DeactivateCall
  \/ ActivateCall

SpecSnapshot == InitSnapshot /\ [][NextSnapshot]_vars

\* product creation by two requests, and the SKU value object
NextCreate ==
  \/ \E r \in Reqs :
       \/ \E input \in SkuInputs : CreateProductCall(r, input)
       \/ CreateExistsBySku(r)
       \/ CreateSave(r)
       \/ CreateCommit(r)
       \/ CreateRollback(r)
  \/ SkuConstruct

SpecCreate == Init /\ [][NextCreate]_vars

\* two requests, each with its own sessions, sharing the RepositoryManager
NextManager ==
  \E r \in Reqs :
    \/ SessionOpen(r)
    \/ GetProductRepository(r)
    \/ SessionEnd(r)

SpecManager == Init /\ [][NextManager]_vars

\* ================================================================== claims
RECURSIVE Requested(_, _, _)
\* the sum of the quantities of the first n items that name product id
Requested(items, id, n) ==
  IF n = 0 THEN 0
  ELSE Requested(items, id, n - 1)
       + (IF items[n].product_id = id THEN items[n].quantity ELSE 0)

\* the stock of product id as request r reads it through its repository
SeenStock(r, id) == GetById(r, id).stock

\* request r's call has returned or raised and its session is still open
CallEnded(r) == pc[r] \in {"returned", "raised"}

\* C1: when a batch reservation returns or raises, either every item's
\* quantity has been deducted from its product's stock, or no update was
\* issued and every stock read through the repository has its pre-call value.
C1_AllOrNothing ==
  \A r \in Reqs :
    (kind[r] = "reserve" /\ CallEnded(r)) =>
      \/ /\ pc[r] = "returned"
         /\ \A id \in ProductIds :
              SeenStock(r, id) = hist[r].pre[id].stock
                - Requested(order_items[r], id, Len(order_items[r]))
      \/ /\ hist[r].updates = 0
         /\ \A id \in ProductIds : SeenStock(r, id) = hist[r].pre[id].stock

\* C2: two reservations of the same product that started from the same
\* committed stock s never both succeed with q1 + q2 > s.
C2_NoOverbooking ==
  \A id \in ProductIds :
    ~ /\ \A r \in Reqs : kind[r] = "reserve" /\ pc[r] \in {"returned", "committed"}
      /\ hist[1].pre[id].stock = hist[2].pre[id].stock
      /\ Requested(order_items[1], id, Len(order_items[1]))
           + Requested(order_items[2], id, Len(order_items[2]))
         > hist[1].pre[id].stock
      /\ Requested(order_items[1], id, Len(order_items[1])) > 0
      /\ Requested(order_items[2], id, Len(order_items[2])) > 0

\* C3: placing an order of one item of quantity q <= s of an active product
\* with a valid customer and address returns a CONFIRMED order whose item
\* has subtotal q x p and leaves the stock at s - q.
C3_PlaceOrderConfirmed ==
  \A r \in Reqs :
    LET cmd == command[r]
        it  == cmd.items[1]
        row == hist[r].pre[it.product_id]
    IN (/\ kind[r] = "place" /\ CallEnded(r)
        /\ CustomerInfoPostInit(cmd.customer_info) = NoExc
        /\ AddressPostInit(cmd.shipping_address) = NoExc
        /\ Len(cmd.items) = 1
        /\ row # NoRow /\ row.is_active /\ it.quantity <= row.stock)
       => /\ pc[r] = "returned"
          /\ result[r].status = CONFIRMED
          /\ Len(result[r].items) = 1
          /\ result[r].items[1].subtotal = it.quantity * row.price
          /\ SeenStock(r, it.product_id) = row.stock - it.quantity

\* some item of the batch asks for more than the stock of its product
SomeItemInsufficient(r) ==
  \E i \in 1..Len(order_items[r]) :
    LET row == hist[r].pre[order_items[r][i].product_id]
    IN row # NoRow /\ order_items[r][i].quantity > row.stock

\* C4: a gateway call whose batch has an item asking for more than the stock
\* of its product raises StockReservationError and leaves the stock of every
\* product at its pre-call value.
C4_InsufficientLeavesStock ==
  \A r \in Reqs :
    (kind[r] = "reserve" /\ CallEnded(r) /\ SomeItemInsufficient(r)) =>
      /\ pc[r] = "raised"
      /\ exc[r] = StockReservationError
      /\ hist[r].updates = 0
      /\ \A id \in ProductIds : SeenStock(r, id) = hist[r].pre[id].stock

\* three items, the second one insufficient, the first and the third not
C4_Witness ==
  \E r \in Reqs :
    /\ kind[r] = "reserve" /\ pc[r] = "raised"
    /\ Len(order_items[r]) = 3
    /\ order_items[r][2].product_id \in ProductIds
    /\ order_items[r][2].quantity > hist[r].pre[order_items[r][2].product_id].stock
    /\ \A i \in {1, 3} :
         /\ order_items[r][i].product_id \in ProductIds
         /\ order_items[r][i].product_id # order_items[r][2].product_id
         /\ order_items[r][i].quantity
              <= hist[r].pre[order_items[r][i].product_id].stock
         /\ hist[r].pre[order_items[r][i].product_id].is_active
    /\ exc[r] = StockReservationError

\* C5: the committed tables change only when a request that raised nothing
\* commits, and then by all of its writes at once; while a request runs,
\* when it has raised and after its rollback the committed product rows and
\* orders are those of before the request.
C5_CommitOnlyOnSuccess ==
  \A r \in Reqs :
    /\ (kind[r] # "idle" /\ pc[r] # "committed") =>
         (db = hist[r].pre /\ orders = hist[r].pre_orders)
    /\ pc[r] = "committed" =>
         /\ exc[r] = NoExc
         /\ \A id \in ProductIds :
              db[id] = [hist[r].pre[id] EXCEPT !.stock =
                          @ - Requested(order_items[r], id, Len(order_items[r]))]
         /\ kind[r] = "reserve" => orders = hist[r].pre_orders
         /\ kind[r] = "place" => Len(orders) = Len(hist[r].pre_orders) + 1

\* a request was rolled back after it had flushed a stock decrement
C5_Witness ==
  \E r \in Reqs : pc[r] = "rolledback" /\ hist[r].updates > 0

\* C6: an order placement calls order_repository.save only after the gateway
\* returned and the order was confirmed, so every order it inserts is
\* CONFIRMED with the quantity of each item deducted in the same session;
\* a placement that raises has not called save.
C6_SaveOnlyAfterReserve ==
  \A r \in Reqs :
    kind[r] = "place" =>
      /\ hist[r].saved =>
           /\ hist[r].reserved
           /\ \A k \in 1..Len(new_orders[r]) :
                /\ new_orders[r][k].status = CONFIRMED
                /\ \A i \in 1..Len(new_orders[r][k].items) :
                     LET id == new_orders[r][k].items[i].product_id
                     IN pending[r][id] # NoRow
                        /\ pending[r][id].stock = hist[r].pre[id].stock
                             - Requested(new_orders[r][k].items, id,
                                         Len(new_orders[r][k].items))
      /\ ~hist[r].saved => new_orders[r] = <<>>
      /\ pc[r] \in {"raised", "rolledback"} => ~hist[r].saved

\* a placement raised in step 2 and save was not called
C6_Witness ==
  \E r \in Reqs :
    /\ kind[r] = "place" /\ pc[r] = "raised"
    /\ exc[r] = BusinessRuleViolation
    /\ ~hist[r].saved /\ new_orders[r] = <<>>

AllowedTransitions ==
  {<<PENDING, CONFIRMED>>, <<CONFIRMED, PROCESSING>>, <<PROCESSING, SHIPPED>>,
   <<SHIPPED, DELIVERED>>, <<PENDING, CANCELLED>>, <<CONFIRMED, CANCELLED>>,
   <<PROCESSING, CANCELLED>>}

\* C7: every change of the status of an Order is one of the transitions of
\* the lifecycle; DELIVERED and CANCELLED are never left.
C7_OnlyAllowedTransitions ==
  [][order'.status # order.status =>
       <<order.status, order'.status>> \in AllowedTransitions]_vars

\* the order went the whole way to DELIVERED
C7_Witness ==
  last.op = "mark_as_delivered" /\ last.exc = NoExc /\ order.status = DELIVERED

\* the guard of a lifecycle method holds in status st
GuardHolds(op, st) ==
  IF op = "confirm" THEN st = PENDING
  ELSE IF op = "mark_as_processing" THEN st = CONFIRMED
  ELSE IF op = "mark_as_shipped" THEN st = PROCESSING
  ELSE IF op = "mark_as_delivered" THEN st = SHIPPED
  ELSE IF op = "add_item" THEN st = PENDING
  ELSE st \notin {SHIPPED, DELIVERED, CANCELLED}

\* C8: a lifecycle call made in a status that does not satisfy its guard
\* raises BusinessRuleViolation and leaves status, confirmed_at and
\* updated_at as they were.
C8_RejectedCallChangesNothing ==
  (last.op # "new" /\ ~GuardHolds(last.op, last.before.status)) =>
    /\ last.exc = BusinessRuleViolation
    /\ order.status = last.before.status
    /\ order.confirmed_at = last.before.confirmed_at
    /\ order.updated_at = last.before.updated_at

\* confirm was called a second time, after the clock had advanced
C8_Witness ==
  /\ last.op = "confirm" /\ last.before.status = CONFIRMED
  /\ last.exc = BusinessRuleViolation
  /\ now > last.before.updated_at

\* C9: after the gateway has returned, item i carries the name and the price
\* of the catalog product with the id of item i, response entry i was made
\* from request item i and there are as many entries as items.
C9_PositionalBackfill ==
  \A r \in Reqs :
    (kind[r] # "idle" /\ hist[r].reserved) =>
      /\ Len(products_info[r]) = Len(order_items[r])
      /\ \A i \in 1..Len(order_items[r]) :
           LET it == order_items[r][i]
           IN /\ it.product_name = hist[r].pre[it.product_id].name
              /\ it.unit_price = hist[r].pre[it.product_id].price
              /\ products_info[r][i].product_id = it.product_id
              /\ products_info[r][i].requested_quantity = it.quantity

\* the gateway returned for a batch whose items name different products
C9_Witness ==
  \E r \in Reqs :
    /\ kind[r] = "reserve" /\ pc[r] = "returned"
    /\ Len(order_items[r]) >= 2
    /\ order_items[r][1].product_id > order_items[r][2].product_id
    /\ order_items[r][1].unit_price = PriceOf(order_items[r][1].product_id)

\* C10: a gateway call either returns True or raises StockReservationError,
\* whatever was raised inside it.
C10_OnlyStockReservationError ==
  \A r \in Reqs :
    kind[r] = "reserve" =>
      /\ pc[r] \in {"returned", "committed"} =>
           (exc[r] = NoExc /\ result[r] = [success |-> TRUE])
      /\ pc[r] \in {"raised", "rolledback"} => exc[r] = StockReservationError

\* the gateway raised for an exception that is neither NotFoundError nor
\* BusinessRuleViolation
C10_Witness ==
  \E r \in Reqs :
    /\ kind[r] = "reserve" /\ pc[r] = "raised"
    /\ hist[r].cause = OtherException
    /\ exc[r] = StockReservationError
\* the gateway method verify_and_reserve_stock was entered by a placement
ReserveEntered(r) ==
  kind[r] = "place" /\ hist[r].gateway_calls = Len(command[r].items) + 1

SomeItemMissing(r) ==
  /\ \E i \in 1..Len(command[r].items) :
       command[r].items[i].product_id = UnknownId
  /\ kind[r] = "place" =>
       /\ CustomerInfoPostInit(command[r].customer_info) = NoExc
       /\ AddressPostInit(command[r].shipping_address) = NoExc

\* C12: a batch with an item whose product id is not in the catalog, wherever
\* it stands, makes ReserveStockUseCase.execute raise NotFoundError with no
\* stock changed, and makes an order placement end in NotFoundError with no
\* stock changed and no order saved.
C12_MissingProductNotFound ==
  \A r \in Reqs :
    (kind[r] # "idle" /\ CallEnded(r) /\ SomeItemMissing(r)) =>
      /\ pc[r] = "raised"
      /\ kind[r] = "reserve" => hist[r].cause = NotFoundError
      /\ kind[r] = "place" => (exc[r] = NotFoundError /\ ~hist[r].saved)
      /\ hist[r].updates = 0
      /\ \A id \in ProductIds : SeenStock(r, id) = hist[r].pre[id].stock
\* the customer data or the shipping address of request r's command is invalid
InvalidCustomerOrAddress(r) ==
  \/ CustomerInfoPostInit(command[r].customer_info) # NoExc
  \/ AddressPostInit(command[r].shipping_address) # NoExc

\* C13: an order placement whose customer data or shipping address is invalid
\* raises ValidationError before any gateway method or order repository
\* method has been invoked.
C13_ValidationBeforeGateway ==
  \A r \in Reqs :
    (kind[r] = "place" /\ InvalidCustomerOrAddress(r)) =>
      /\ pc[r] \in {"raised", "rolledback"}
      /\ exc[r] = ValidationError
      /\ hist[r].gateway_calls = 0
      /\ hist[r].updates = 0
      /\ ~hist[r].saved /\ new_orders[r] = <<>>
      /\ cache[r] = NewSession

\* a placement with a valid customer and an invalid address has raised
C13_Witness ==
  \E r \in Reqs :
    /\ kind[r] = "place" /\ pc[r] = "raised"
    /\ CustomerInfoPostInit(command[r].customer_info) = NoExc
    /\ AddressPostInit(command[r].shipping_address) = ValidationError
    /\ exc[r] = ValidationError

\* C14: after a successful reservation, release_stock restores the stock of
\* every product named in the items to its value before the reservation, and
\* a second release_stock leaves every stock as the first one left it.
C14_ReleaseRestoresStock ==
  \A r \in Reqs :
    (kind[r] = "reserve" /\ hist[r].released >= 1) =>
      \A id \in ProductIds : SeenStock(r, id) = hist[r].pre[id].stock
\* C15 as stated: reserve_stock(q) succeeds if and only if the product is
\* active and its stock is at least q, and then the stock is decreased by q;
\* on an inactive product and on insufficient stock it raises
\* BusinessRuleViolation; a failure leaves stock and is_active unchanged.
C15_ReserveIffActiveAndSufficient ==
  plast.op = "reserve_stock" =>
    LET b == plast.before
        q == plast.arg
    IN /\ (plast.exc = NoExc) <=> (b.is_active /\ b.stock >= q)
       /\ plast.exc = NoExc => prod.stock = b.stock - q
       /\ ~b.is_active => plast.exc = BusinessRuleViolation
       /\ b.stock < q => plast.exc = BusinessRuleViolation
       /\ plast.exc # NoExc =>
            (prod.stock = b.stock /\ prod.is_active = b.is_active)

\* C15 amended: the same for q >= 0; for q < 0 reserve_stock raises (on an
\* active product ValidationError, from Stock.decrease) and leaves stock and
\* is_active unchanged.
C15_ReserveNonNegative ==
  plast.op = "reserve_stock" =>
    LET b == plast.before
        q == plast.arg
    IN /\ q >= 0 =>
            /\ (plast.exc = NoExc) <=> (b.is_active /\ b.stock >= q)
            /\ plast.exc = NoExc => prod.stock = b.stock - q
            /\ b.stock < q => plast.exc = BusinessRuleViolation
       /\ q < 0 =>
            plast.exc = (IF b.is_active THEN ValidationError
                         ELSE BusinessRuleViolation)
       /\ ~b.is_active => plast.exc = BusinessRuleViolation
       /\ plast.exc # NoExc =>
            (prod.stock = b.stock /\ prod.is_active = b.is_active)

\* reserve_stock was refused on an inactive product that had the stock
C15_Witness ==
  /\ plast.op = "reserve_stock" /\ ~plast.before.is_active
  /\ plast.arg >= 1 /\ plast.before.stock >= plast.arg
  /\ plast.exc = BusinessRuleViolation

\* C16: update_price(new) on a product priced old raises BusinessRuleViolation
\* if and only if |new - old| / old > 0.5 (exactly 50% is accepted); a failure
\* leaves the price unchanged, a success sets it to new; a product without a
\* price accepts any valid price.
C16_PriceChangeLimit ==
  plast.op = "update_price" =>
    LET old == plast.before.price
        new == plast.arg
    IN /\ (plast.exc = BusinessRuleViolation)
            <=> (old # NoPrice /\ 2 * Abs(new - old) > old)
       /\ plast.exc # NoExc => prod.price = old
       /\ plast.exc = NoExc => prod.price = new

\* C17: the stock quantity of every product, in the aggregate and as stored,
\* is an integer >= 0 in every reachable state.
C17_StockNeverNegative ==
  /\ prod.stock \in Nat
  /\ stock_vo \in Nat
  /\ \A id \in ProductIds :
       /\ db[id].stock \in Nat
       /\ \A r \in Reqs :
            /\ pending[r][id] # NoRow => pending[r][id].stock \in Nat
            /\ cache[r][id] # NoRow => cache[r][id].stock \in Nat
  /\ \A r \in Reqs :
       /\ product[r] # NoProduct => product[r].stock \in Nat
       /\ \A i \in 1..Len(products_info[r]) :
            products_info[r][i].remaining_stock \in Nat

\* two interleaved reservations were both committed and emptied a product
\* that one of them alone would have emptied
C17_Witness ==
  \E id \in ProductIds :
    /\ \A r \in Reqs : pc[r] = "committed"
    /\ db[id].stock = 0
    /\ Requested(order_items[1], id, Len(order_items[1]))
         + Requested(order_items[2], id, Len(order_items[2]))
       > hist[1].pre[id].stock

\* C18: Stock(s).decrease(a) with 0 <= a <= s returns Stock(s - a), with
\* a > s or a < 0 it raises; increase(a) with a >= 0 returns Stock(s + a);
\* the instance the method was called on keeps quantity s in every case.
C18_StockDecreaseIncrease ==
  LET s == slast.before
      a == slast.arg
  IN /\ slast.op = "decrease" =>
          /\ (0 <= a /\ a <= s) => (slast.exc = NoExc /\ slast.val = s - a)
          /\ (a > s \/ a < 0) => slast.exc # NoExc
          /\ stock_vo = s
     /\ slast.op = "increase" =>
          /\ a >= 0 => (slast.exc = NoExc /\ slast.val = s + a)
          /\ stock_vo = s

\* decrease was called with a negative amount and raised
C18_Witness ==
  slast.op = "decrease" /\ slast.arg < 0 /\ slast.exc = ValidationError

\* C19: replenish_stock(q) with q >= 0 succeeds on active and inactive
\* products and sets the stock to its previous quantity plus q; with q < 0 it
\* raises and leaves the stock unchanged.
C19_ReplenishStock ==
  plast.op = "replenish_stock" =>
    /\ plast.arg >= 0 =>
         (plast.exc = NoExc /\ prod.stock = plast.before.stock + plast.arg)
    /\ plast.arg < 0 =>
         (plast.exc # NoExc /\ prod.stock = plast.before.stock)

\* an inactive product was replenished
C19_Witness ==
  /\ plast.op = "replenish_stock" /\ ~plast.before.is_active
  /\ plast.arg >= 1 /\ plast.exc = NoExc
  /\ prod.stock = plast.before.stock + plast.arg

\* C20: in every state of an Order, constructed with a defaulted or with an
\* explicitly supplied total_amount and after any add_item calls and status
\* transitions, total_amount equals the sum over its items of
\* quantity x unit_price.
C20_TotalIsSumOfItems ==
  order.total_amount = CalculateTotal(order.items)

\* C21: add_item succeeds only while the order is PENDING, and then the item
\* list is the old one with one item appended at its end and total_amount is
\* the recomputed sum; in any other status it raises BusinessRuleViolation
\* and leaves items, total_amount and status unchanged, so the items of a
\* CONFIRMED order never grow.
C21_AddItemOnlyWhilePending ==
  last.op = "add_item" =>
    IF last.before.status = PENDING
    THEN /\ last.exc = NoExc
         /\ Len(order.items) = Len(last.before.items) + 1
         /\ SubSeq(order.items, 1, Len(last.before.items)) = last.before.items
         /\ order.total_amount = CalculateTotal(order.items)
         /\ order.status = PENDING
    ELSE /\ last.exc = BusinessRuleViolation
         /\ order.items = last.before.items
         /\ order.total_amount = last.before.total_amount
         /\ order.status = last.before.status

\* add_item was refused on a CONFIRMED order that an earlier add_item had
\* grown to two items
C21_Witness ==
  /\ last.op = "add_item" /\ last.before.status = CONFIRMED
  /\ last.exc = BusinessRuleViolation
  /\ Len(order.items) = 2

\* C22: after any sequence of create_product runs, two runs with the same
\* SKU whose exists_by_sku and save interleave included, no two stored
\* products share a SKU, and a create whose SKU is already stored raises
\* BusinessRuleViolation and stores nothing.
C22_UniqueSkuOrBusinessRule ==
  /\ \A i, j \in 1..Len(sku_rows) :
       sku_rows[i].sku = sku_rows[j].sku => i = j
  /\ \A r \in Reqs :
       (create[r].pc \in {"raised", "returned"} /\ RowsWithSku(create[r].sku) # {}) =>
         /\ create[r].exc = BusinessRuleViolation
         /\ create[r].row = NoRow

\* C25: a SKU built from fewer than 5 characters fails with ValidationError,
\* and a constructed SKU holds the upper-case form of its input, both when
\* the SKU value object is constructed directly and when a product is
\* created through CreateProductCommand.
C25_SkuUpperCased ==
  /\ Len(sku_vo.arg) < 5 => sku_vo.exc = ValidationError
  /\ sku_vo.exc = NoExc => sku_vo.val = Upper(sku_vo.arg)
  /\ \A r \in Reqs :
       create[r].pc \in {"exists", "save", "returned"} =>
         create[r].sku = Upper(create[r].input)

\* C24: in every state of a Product the name has at least 3 characters, and
\* update_details called with a supplied name shorter than 3 characters, the
\* empty string included, raises BusinessRuleViolation and leaves name and
\* description unchanged.
C24_NameAtLeastThree ==
  /\ Len(prod.name) >= 3
  /\ (/\ plast.op = "update_details"
      /\ plast.arg.name.given
      /\ Len(plast.arg.name.chars) < 3) =>
       /\ plast.exc = BusinessRuleViolation
       /\ prod.name = plast.before.name
       /\ prod.description = plast.before.description

C26_OneRepositoryPerSession ==
  \A a, b \in returned :
    a.session = b.session => a.repository.id = b.repository.id

\* C30: the repository returned by get_product_repository(session) is bound
\* to the session passed in that call, so the repository a request holds
\* never uses another request's session, also after another request's call
\* has replaced the manager's cached repository.
C30_RepositoryBoundToOwnSession ==
  /\ \A a \in returned : a.repository.session = a.session
  /\ \A r \in Reqs :
       req_repo[r].repository # NoRepository =>
         req_repo[r].repository.session = req_repo[r].session

\* request 1 holds its repository while the manager caches the one created
\* for request 2's session
C30_Witness ==
  /\ req_repo[1].repository # NoRepository
  /\ req_repo[2].repository # NoRepository
  /\ manager.current_session = req_repo[2].session
  /\ req_repo[1].session # req_repo[2].session
  /\ req_repo[1].repository.session = req_repo[1].session

\* item i of the batch of request r passes the existence and stock check
\* against the catalog as it was when the run began
ItemPassesCheck(r, i) ==
  LET item == order_items[r][i]
      row  == hist[r].pre[item.product_id]
  IN IF row = NoRow THEN FALSE ELSE StockIsAvailable(row.stock, item.quantity)

C28_SuccessfulReservationAccounts ==
  \A r \in SeqReqs :
    (kind[r] = "reserve" /\ hist[r].reserved /\ pc[r] \in {"returned", "committed"}) =>
      LET items == command[r].items
      IN /\ \A id \in ProductIds :
              Visible(r, id).stock
                = hist[r].pre[id].stock - Requested(items, id, Len(items))
         /\ Len(products_info[r]) = Len(items)
         /\ \A i \in 1..Len(items) :
              LET info == products_info[r][i]
                  id   == items[i].product_id
              IN /\ info.product_id = id
                 /\ info.reserved_quantity = items[i].quantity
                 /\ info.requested_quantity = items[i].quantity
                 /\ info.remaining_stock
                      = hist[r].pre[id].stock - Requested(items, id, i)
                 /\ info.unit_price = db[id].price

\* a batch naming the same product twice was reserved and committed
C28_Witness ==
  \E r \in SeqReqs :
    /\ kind[r] = "reserve" /\ hist[r].reserved /\ pc[r] = "committed"
    /\ Len(command[r].items) >= 2
    /\ command[r].items[1].product_id = command[r].items[2].product_id
    /\ products_info[r][1].remaining_stock > products_info[r][2].remaining_stock

\* product id is named by an item of the batch
Named(items, id) == \E i \in 1..Len(items) : items[i].product_id = id

====
